---- MODULE Spec2Model ----
(***************************************************************************)
(* The read path of the flatbuffers Rust runtime: Buffer, Table, Vector,   *)
(* VectorIter, the string decode, the root accessors and                   *)
(* buffer_has_identifier.                                                  *)
(*                                                                         *)
(* A byte is 0..255, a buffer a sequence of bytes (TLA+ index = Rust       *)
(* index + 1).  usize is WordBits wide: arithmetic written with + and *    *)
(* panics on overflow in a build with overflow checks (the debug profile)  *)
(* and wraps otherwise; wrapping_add and saturating_sub never panic.       *)
(***************************************************************************)
EXTENDS Integers, Sequences, FiniteSets, TLC

\* ------------------------------------------------------------------ bounds
\* The target's pointer width.  Rust builds this code for 16, 32 and 64 bit
\* targets; 16 is the narrowest, and TLC's integers hold its whole range.
WordBits == 16
\* Longest vector of the fixtures.
MaxLen == 3
\* Calls made on one cursor.
MaxOps == 4
\* Largest small skip count tried (the large ones are taken from the word).
MaxSkip == 2

\* Most field slots a fixture table declares.
MaxSlots == 3

\* Most 4-byte words of a fixture buffer handed to a root accessor.
MaxWords == 3

\* Longest byte run of a fixture string.
MaxStr == 3
\* Longest buffer handed to buffer_has_identifier.
MaxIdentBuf == 12

\* ----------------------------------------------------- program constants
SIZE_UOFFSET == 4
SIZE_VOFFSET == 2
SIZE_SOFFSET == 4
SIZE_SIZEPREFIX == 4
FILE_IDENTIFIER_LENGTH == 4

\* ------------------------------------------------------------ machine word
WordMod == 2 ^ WordBits
WordMax == WordMod - 1

\* The outcome of an arithmetic panic, kept apart from every usize.
Panic == -1

\* a + b on usize: panics with overflow checks, wraps without.
UAdd(a, b, checks) ==
    IF a = Panic \/ b = Panic THEN Panic
    ELSE IF a + b > WordMax THEN (IF checks THEN Panic ELSE (a + b) % WordMod)
    ELSE a + b

\* a * b on usize: panics with overflow checks, wraps without.
UMul(a, b, checks) ==
    IF a = Panic \/ b = Panic THEN Panic
    ELSE IF a > 0 /\ b > WordMax \div a
         THEN (IF checks THEN Panic ELSE (a * b) % WordMod)
    ELSE a * b

\* usize::wrapping_add
WrappingAdd(a, b) == (a + b) % WordMod

\* usize::saturating_sub
SaturatingSub(a, b) == IF b >= a THEN 0 ELSE a - b

\* ------------------------------------------------------------ scalar codec
\* The little-endian bytes of v, w of them (the encoder's side of the wire).
LEBytes(v, w) == [i \in 1..w |-> (v \div (256 ^ (i - 1))) % 256]

\* Whether the w bytes at loc lie inside buf.
InBounds(buf, loc, w) == loc >= 0 /\ loc + w <= Len(buf)

\* What a read outside the buffer stands for: the codec has no failure mode of
\* its own, the read is undefined; the marker equals no decoded value.
OutOfBounds == -2

RECURSIVE LEValue(_, _, _)
LEValue(buf, loc, w) ==
    IF w = 0 THEN 0 ELSE buf[loc + 1] + 256 * LEValue(buf, loc + 1, w - 1)

\* read_scalar_at::<T>(buf, loc) for a w-byte unsigned T: little-endian.
ReadScalarAt(buf, loc, w) ==
    IF InBounds(buf, loc, w) THEN LEValue(buf, loc, w) ELSE OutOfBounds

\* read_scalar_at::<UOffsetT>(buf, loc) as usize: the cast keeps the low
\* WordBits bits (all 32 of them on a target of 32 bits or more).
ReadUOffsetAsUsize(buf, loc) ==
    IF ~InBounds(buf, loc, 4) THEN OutOfBounds ELSE
    LET lo == buf[loc + 1] + 256 * buf[loc + 2]
        hi == buf[loc + 3] + 256 * buf[loc + 4]
        hiMod == IF WordBits > 16 THEN 2 ^ (WordBits - 16) ELSE 1
    IN  (lo + 65536 * (hi % hiMod)) % WordMod

VARIABLES
    build,  \* whether the build has overflow checks
    vec,    \* the Vector under iteration: buf, loc, the element stride sz
    iter,   \* the VectorIter: loc, remaining
    last,   \* the last call on the cursor and what it returned
    log,    \* history of the cursor: items yielded, calls made, skips asked
    tbl,    \* Table::get: the table, the call and its result
    rt,     \* the root accessors: the call, the verifier runs, the decodes
    str,    \* the string decode: the call and its result
    idc     \* buffer_has_identifier: the call and its result

vars == <<build, vec, iter, last, log, tbl, rt, str, idc>>

\* The value of a component no call has touched.
Idle == [call |-> "idle"]

\* ------------------------------------------------------- Vector, VectorIter
\* The element types of the fixtures: u8, u16, u32 (size_of::<T>()).
Strides == {1, 2, 4}

\* Element i (from 0) of a fixture: its bytes are i+1, i+2, ...: distinct per
\* index, and the high bytes are not zero.
ElemBytes(i, sz) == [k \in 1..sz |-> i + k]

RECURSIVE ElemsBytes(_, _, _)
ElemsBytes(i, n, sz) ==
    IF i >= n THEN <<>> ELSE ElemBytes(i, sz) \o ElemsBytes(i + 1, n, sz)

\* The wire form of a sequence: [4-byte count][count x element], after pad
\* bytes of other data.
VectorBuf(pad, n, sz) ==
    [i \in 1..pad |-> 238] \o LEBytes(n, SIZE_UOFFSET) \o ElemsBytes(0, n, sz)

\* Vector::new(buf, loc), with the stride of its element type.
Vector_new(buf, loc, sz) == [buf |-> buf, loc |-> loc, sz |-> sz]

\* Vector::default(): a static buffer of four zero bytes, location 0.
Vector_default(sz) == Vector_new([i \in 1..SIZE_UOFFSET |-> 0], 0, sz)

\* Vector::len
Vector_len(v) == ReadUOffsetAsUsize(v.buf, v.loc)

\* T::follow(buf, loc) for a scalar T of sz bytes.
Follow_scalar(buf, loc, sz) == ReadScalarAt(buf, loc, sz)

\* Vector::get
Vector_get(v, idx) ==
    Follow_scalar(v.buf, v.loc + SIZE_UOFFSET + v.sz * idx, v.sz)

\* Option<T::Inner>, or the panic that ended the call.
SomeRes(loc, val) == [kind |-> "Some", loc |-> loc, val |-> val]
NoneRes == [kind |-> "None", loc |-> 0, val |-> 0]
PanicRes == [kind |-> "Panic", loc |-> 0, val |-> 0]

\* VectorIter::new
VectorIter_new(v) ==
    [loc |-> v.loc + SIZE_UOFFSET, remaining |-> Vector_len(v)]

\* Iterator::next
VectorIter_next(it, v, checks) ==
    IF it.remaining = 0 THEN [iter |-> it, res |-> NoneRes]
    ELSE LET result == Follow_scalar(v.buf, it.loc, v.sz)
             loc2 == UAdd(it.loc, v.sz, checks)
         IN  IF loc2 = Panic THEN [iter |-> it, res |-> PanicRes]
             ELSE [iter |-> [loc |-> loc2, remaining |-> it.remaining - 1],
                   res |-> SomeRes(it.loc, result)]

\* nth as a bug would have it: the cursor moves, the count of the skipped
\* items is not taken off remaining.
VectorIter_nth_keepsCount(it, n, v, checks) ==
    LET by == UMul(v.sz, n, checks)
    IN  IF by = Panic THEN [iter |-> it, res |-> PanicRes]
        ELSE VectorIter_next(
                 [loc |-> WrappingAdd(it.loc, by), remaining |-> it.remaining],
                 v, checks)

\* Iterator::nth
VectorIter_nth(it, n, v, checks) ==
    LET rem == SaturatingSub(it.remaining, n)
        by == UMul(v.sz, n, checks)
    IN  IF by = Panic
        THEN [iter |-> [loc |-> it.loc, remaining |-> rem], res |-> PanicRes]
        ELSE VectorIter_next(
                 [loc |-> WrappingAdd(it.loc, by), remaining |-> rem], v, checks)

\* next_back as a bug would have it: the item is read before remaining is
\* decremented, one element past the back.
VectorIter_next_back_offByOne(it, v, checks) ==
    IF it.remaining = 0 THEN [iter |-> it, res |-> NoneRes]
    ELSE LET at == UAdd(it.loc, UMul(v.sz, it.remaining, checks), checks)
             it2 == [loc |-> it.loc, remaining |-> it.remaining - 1]
         IN  IF at = Panic THEN [iter |-> it2, res |-> PanicRes]
             ELSE [iter |-> it2,
                   res |-> SomeRes(at, Follow_scalar(v.buf, at, v.sz))]

\* DoubleEndedIterator::next_back
VectorIter_next_back(it, v, checks) ==
    IF it.remaining = 0 THEN [iter |-> it, res |-> NoneRes]
    ELSE LET rem == it.remaining - 1
             at == UAdd(it.loc, UMul(v.sz, rem, checks), checks)
             it2 == [loc |-> it.loc, remaining |-> rem]
         IN  IF at = Panic THEN [iter |-> it2, res |-> PanicRes]
             ELSE [iter |-> it2,
                   res |-> SomeRes(at, Follow_scalar(v.buf, at, v.sz))]

\* nth_back as a bug would have it: the skip count is dropped, the call is a
\* plain next_back.
VectorIter_nth_back_ignoresSkip(it, n, v, checks) ==
    VectorIter_next_back(it, v, checks)

\* DoubleEndedIterator::nth_back
VectorIter_nth_back(it, n, v, checks) ==
    VectorIter_next_back(
        [loc |-> it.loc, remaining |-> SaturatingSub(it.remaining, n)], v, checks)

\* Iterator::size_hint
VectorIter_size_hint(it) == <<it.remaining, it.remaining>>

\* ExactSizeIterator::len
VectorIter_len(it) == it.remaining

\* The skip counts tried: small ones, and ones from the top of the word.
NArgs == (0..MaxSkip) \cup {WordMod \div 4, WordMod \div 2, WordMax}

NoCall == [op |-> "new", n |-> 0, res |-> NoneRes, remBefore |-> 0,
           endedBefore |-> FALSE]

NewLog == [yielded |-> <<>>, count |-> 0, ops |-> 0, skipped |-> 0,
           onlyNext |-> TRUE, onlyBack |-> TRUE, ended |-> FALSE]

\* One call on the cursor: op(n) returned r.
Called(op, n, r) ==
    /\ iter' = r.iter
    /\ last' = [op |-> op, n |-> n, res |-> r.res,
                remBefore |-> iter.remaining, endedBefore |-> log.ended]
    /\ log' = [yielded |-> IF r.res.kind = "Some"
                             THEN Append(log.yielded,
                                     [end |-> IF op \in {"next", "nth"}
                                              THEN "front" ELSE "back",
                                      loc |-> r.res.loc, val |-> r.res.val])
                             ELSE log.yielded,
               count |-> log.count,
               ops |-> log.ops + 1,
               skipped |-> log.skipped + n,
               onlyNext |-> log.onlyNext /\ op = "next",
               onlyBack |-> log.onlyBack /\ op = "next_back",
               ended |-> log.ended \/ r.res.kind = "None"]
    /\ UNCHANGED <<build, vec, tbl, rt, str, idc>>

\* A panic unwinds out of the caller: no further call is made on the cursor.
CanCall == last.res.kind # "Panic" /\ log.ops < MaxOps

CallNext ==
    /\ CanCall
    /\ Called("next", 0, VectorIter_next(iter, vec, build))

CallNextBack ==
    /\ CanCall
    /\ Called("next_back", 0, VectorIter_next_back(iter, vec, build))

CallNth ==
    /\ CanCall
    /\ \E n \in NArgs : Called("nth", n, VectorIter_nth(iter, n, vec, build))

CallNthBack ==
    /\ CanCall
    /\ \E n \in NArgs :
           Called("nth_back", n, VectorIter_nth_back(iter, n, vec, build))

\* A fresh cursor from Vector::iter() over any fixture, in either build.
\* log.count keeps the count the fixture was encoded with.
InitIter ==
    /\ build \in BOOLEAN
    /\ \E sz \in Strides :
         \/ \E pad \in {0, 4}, n \in 0..MaxLen :
                /\ vec = Vector_new(VectorBuf(pad, n, sz), pad, sz)
                /\ log = [NewLog EXCEPT !.count = n]
         \/ vec = Vector_default(sz) /\ log = NewLog
    /\ iter = VectorIter_new(vec)
    /\ last = NoCall
    /\ tbl = Idle /\ rt = Idle /\ str = Idle /\ idc = Idle

NextIter == CallNext \/ CallNextBack \/ CallNth \/ CallNthBack

SpecIter == InitIter /\ [][NextIter]_vars

Min(a, b) == IF a < b THEN a ELSE b
Max(a, b) == IF a > b THEN a ELSE b

\* The location and the value of element i (from 0) of the vector.
ElemLoc(v, i) == v.loc + SIZE_UOFFSET + i * v.sz

\* C3: a fresh cursor over a sequence whose count field is L reports len() = L;
\* driven only by next it yields exactly L items, the i-th the element decoded
\* at location + 4 + i*stride (the value of get(i)), and then reports end;
\* driven only by next_back it yields the same items in the reverse order and
\* then reports end; with L = 0 the first call of either reports end.
C3_IterationOrder ==
    LET L == log.count
        k == Len(log.yielded)
    IN  /\ Vector_len(vec) = L
        /\ log.ops = 0 => VectorIter_len(iter) = L
        /\ log.onlyNext =>
              /\ k = Min(log.ops, L)
              /\ \A i \in 1..k :
                    /\ log.yielded[i].loc = ElemLoc(vec, i - 1)
                    /\ log.yielded[i].val = Vector_get(vec, i - 1)
                    /\ log.yielded[i].val = LEValue(ElemBytes(i - 1, vec.sz), 0, vec.sz)
              /\ (log.ops > 0 /\ log.ops <= L) => last.res.kind = "Some"
              /\ log.ops > L => last.res.kind = "None"
        /\ log.onlyBack =>
              /\ k = Min(log.ops, L)
              /\ \A i \in 1..k :
                    /\ log.yielded[i].loc = ElemLoc(vec, L - i)
                    /\ log.yielded[i].val = Vector_get(vec, L - i)
              /\ (log.ops > 0 /\ log.ops <= L) => last.res.kind = "Some"
              /\ log.ops > L => last.res.kind = "None"

\* C3's case: a sequence of two or more items iterated forward to its end,
\* the call after the last item reporting end.
C3_Witness ==
    /\ log.onlyNext /\ log.count >= 2
    /\ log.ops = log.count + 1
    /\ Len(log.yielded) = log.count
    /\ last.res.kind = "None"

\* The number of items repeated next calls still produce.
RECURSIVE DrainCount(_, _, _)
DrainCount(it, v, checks) ==
    LET r == VectorIter_next(it, v, checks)
    IN  IF r.res.kind = "Some" THEN 1 + DrainCount(r.iter, v, checks) ELSE 0

\* C4: after any calls of next, next_back, nth(n) and nth_back(n), len() and
\* both bounds of size_hint() equal the number of items the cursor can still
\* produce: L minus the items produced minus the items skipped, floored at 0.
C4_RemainingIsExact ==
    LET expected == Max(0, log.count - Len(log.yielded) - log.skipped)
    IN  /\ VectorIter_len(iter) = expected
        /\ VectorIter_size_hint(iter) = <<expected, expected>>
        /\ DrainCount(iter, vec, build) = expected

\* C4's case: a skip of one item that returned the item after it, with an
\* item still to come.
C4_Witness ==
    /\ log.count = 3 /\ log.ops = 1
    /\ last.op \in {"nth", "nth_back"} /\ last.n = 1 /\ last.res.kind = "Some"
    /\ log.skipped = 1 /\ Len(log.yielded) = 1
    /\ iter.remaining = 1

\* C5: nth(n) and nth_back(n) with n >= remaining, for n in the whole range of
\* the machine word, return end-of-sequence, leave remaining = 0 and complete
\* without overflow or fault; every later call reports end-of-sequence.
C5_SkipPastEndIsSafe ==
    /\ (last.op \in {"nth", "nth_back"} /\ last.n >= last.remBefore) =>
          (last.res.kind = "None" /\ iter.remaining = 0)
    /\ last.endedBefore => last.res.kind = "None"

\* C8: once a call has reported end-of-sequence, every later call of next,
\* next_back, nth or nth_back, with any argument, reports end-of-sequence and
\* the remaining count stays 0.
C8_Fused ==
    last.endedBefore => (last.res.kind = "None" /\ iter.remaining = 0)

\* The index of the element an item was decoded at, -1 if its location is
\* that of no element of the vector.
IndexOf(item) ==
    LET at == {i \in 0..(log.count - 1) : ElemLoc(vec, i) = item.loc}
    IN  IF at = {} THEN -1 ELSE CHOOSE i \in at : TRUE

\* The positions, in `items`, of the items returned from one end.
FromEnd(items, end) == {i \in 1..Len(items) : items[i].end = end}

\* The front of the cursor after `items` were returned: one past the last
\* index returned from the front; and its back: one before the last index
\* returned from the back.
FrontAfter(items) ==
    LET f == FromEnd(items, "front")
    IN  IF f = {} THEN 0
        ELSE 1 + IndexOf(items[CHOOSE i \in f : \A j \in f : j <= i])
BackAfter(items) ==
    LET b == FromEnd(items, "back")
    IN  IF b = {} THEN log.count - 1
        ELSE IndexOf(items[CHOOSE i \in b : \A j \in b : j <= i]) - 1

\* C11: under any interleaving of next, next_back, nth(n) and nth_back(n),
\* every item returned is an element of the vector, at an index in 0..L-1;
\* the front calls return strictly increasing indices, the back calls
\* strictly decreasing ones, every front index is below every back index and
\* no index is returned twice; nth(n) with n < remaining returns the element
\* n positions after the current front, nth_back(n) the element n positions
\* before the current back.
C11_IndexOrder ==
    LET ys == log.yielded
        k == Len(ys)
        idx == [i \in 1..k |-> IndexOf(ys[i])]
        front == FromEnd(ys, "front")
        back == FromEnd(ys, "back")
        before == IF last.res.kind = "Some" THEN SubSeq(ys, 1, k - 1) ELSE ys
    IN  /\ \A i \in 1..k :
              /\ idx[i] \in 0..(log.count - 1)
              /\ ys[i].val = Vector_get(vec, idx[i])
        /\ \A i \in front, j \in front : i < j => idx[i] < idx[j]
        /\ \A i \in back, j \in back : i < j => idx[i] > idx[j]
        /\ \A i \in front, j \in back : idx[i] < idx[j]
        /\ \A i \in 1..k, j \in 1..k : i # j => idx[i] # idx[j]
        /\ (last.op = "nth" /\ last.n < last.remBefore) =>
              /\ last.res.kind = "Some"
              /\ idx[k] = FrontAfter(before) + last.n
        /\ (last.op = "nth_back" /\ last.n < last.remBefore) =>
              /\ last.res.kind = "Some"
              /\ idx[k] = BackAfter(before) - last.n

\* C11's case: an item taken from the front, then a skip from the back that
\* passed over the last element and returned the one before it.
C11_Witness ==
    /\ log.count = 3 /\ Len(log.yielded) = 2
    /\ log.yielded[1].end = "front" /\ IndexOf(log.yielded[1]) = 0
    /\ last.op = "nth_back" /\ last.n = 1 /\ last.res.kind = "Some"
    /\ IndexOf(log.yielded[2]) = 1
    /\ iter.remaining = 0

\* ------------------------------------------------------------------ Table
\* The little-endian bytes of a signed 32-bit v (two's complement).
LEBytesI32(v) == LEBytes(v % 65536, 2) \o LEBytes((v \div 65536) % 65536, 2)

\* read_scalar_at::<SOffsetT>(buf, loc): little-endian, two's complement.
ReadSOffset(buf, loc) ==
    LET lo == LEValue(buf, loc, 2)
        hi == LEValue(buf, loc + 2, 2)
    IN  (IF hi >= 32768 THEN hi - 65536 ELSE hi) * 65536 + lo

\* <BackwardsSOffset<T>>::follow(buf, loc): T at loc - the signed offset
\* stored at loc.  T = VTable: the location of the field-offset table.
BackwardsSOffset_follow(buf, loc) == loc - ReadSOffset(buf, loc)

\* VTable::get(byte_loc): 0 past the table's declared byte size, else the
\* 2-byte slot entry.
VTable_get(buf, vtloc, byte_loc) ==
    IF byte_loc >= ReadScalarAt(buf, vtloc, SIZE_VOFFSET) THEN 0
    ELSE ReadScalarAt(buf, vtloc + byte_loc, SIZE_VOFFSET)

\* Table::new
Table_new(buf, loc) == [buf |-> buf, loc |-> loc]

\* Table::vtable: the location of the table's VTable.
Table_vtable(t) == BackwardsSOffset_follow(t.buf, t.loc)

\* Option<T::Inner> of a field.
FieldSome(v) == [kind |-> "Some", val |-> v]
FieldNone == [kind |-> "None", val |-> 0]

\* Table::get as a bug would have it: no test of the raw offset, an absent
\* slot decodes the bytes at the object's own location.
Table_get_noDefault(t, slot_byte_loc, default, w) ==
    LET o == VTable_get(t.buf, Table_vtable(t), slot_byte_loc)
    IN  FieldSome(Follow_scalar(t.buf, t.loc + o, w))

\* Table::get::<T> for a scalar T of w bytes.
Table_get(t, slot_byte_loc, default, w) ==
    LET o == VTable_get(t.buf, Table_vtable(t), slot_byte_loc)
    IN  IF o = 0 THEN default
        ELSE FieldSome(Follow_scalar(t.buf, t.loc + o, w))

\* The byte location, within a field-offset table, of the entry of slot id:
\* after the two 2-byte header fields.
SlotByteLoc(id) == 2 * SIZE_VOFFSET + SIZE_VOFFSET * id

\* The width of the fixtures' fields: u16.
FieldWidth == 2

\* The raw offsets of a fixture: the fields present are laid out in slot
\* order after the object's 4-byte backward offset; an absent slot has 0.
RECURSIVE RawOffsets(_, _)
RawOffsets(present, at) ==
    IF present = <<>> THEN <<>>
    ELSE IF Head(present)
         THEN <<at>> \o RawOffsets(Tail(present), at + FieldWidth)
         ELSE <<0>> \o RawOffsets(Tail(present), at)

RECURSIVE ConcatLE(_, _)
ConcatLE(vals, w) ==
    IF vals = <<>> THEN <<>> ELSE LEBytes(Head(vals), w) \o ConcatLE(Tail(vals), w)

SelectPresent(vals, present) ==
    LET RECURSIVE Sel(_)
        Sel(i) == IF i > Len(vals) THEN <<>>
                  ELSE (IF present[i] THEN <<vals[i]>> ELSE <<>>) \o Sel(i + 1)
    IN  Sel(1)

\* The wire form of a field-offset table: [own byte size][object byte
\* size][2-byte offset per slot].
VTableBytes(offsets, objSize) ==
    LEBytes(2 * SIZE_VOFFSET + SIZE_VOFFSET * Len(offsets), SIZE_VOFFSET)
        \o LEBytes(objSize, SIZE_VOFFSET) \o ConcatLE(offsets, SIZE_VOFFSET)

\* A fixture: an object with the slots of `present`, the field of slot i
\* holding vals[i], its field-offset table before or after the object.
TableFixture(present, vals, vtFirst) ==
    LET offsets == RawOffsets(present, SIZE_SOFFSET)
        fields == ConcatLE(SelectPresent(vals, present), FieldWidth)
        objSize == SIZE_SOFFSET + Len(fields)
        vt == VTableBytes(offsets, objSize)
        loc == IF vtFirst THEN Len(vt) ELSE 0
        vtloc == IF vtFirst THEN 0 ELSE objSize
        obj == LEBytesI32(loc - vtloc) \o fields
    IN  [table |-> Table_new(IF vtFirst THEN vt \o obj ELSE obj \o vt, loc),
         offsets |-> offsets, vals |-> vals]

\* The field values of the fixtures: zero, and one with a high byte.
FieldVals == {0, 263}

\* The defaults a caller supplies.
Defaults == {FieldNone, FieldSome(42)}

InitTable ==
    /\ \E n \in 0..MaxSlots, vtFirst \in BOOLEAN :
         \E present \in [1..n -> BOOLEAN], vals \in [1..n -> FieldVals] :
            LET f == TableFixture(present, vals, vtFirst)
            IN  tbl = [call |-> "new", table |-> f.table, offsets |-> f.offsets,
                       vals |-> f.vals, slot |-> 0, default |-> FieldNone,
                       res |-> FieldNone]
    /\ build = FALSE
    /\ vec = Idle /\ iter = Idle /\ last = Idle /\ log = Idle
    /\ rt = Idle /\ str = Idle /\ idc = Idle

\* table.get::<u16>(slot, default), for a slot the table declares or not.
CallTableGet ==
    /\ \E id \in 0..(MaxSlots + 1), default \in Defaults :
         tbl' = [tbl EXCEPT !.call = "get", !.slot = id, !.default = default,
                            !.res = Table_get(tbl.table, SlotByteLoc(id),
                                              default, FieldWidth)]
    /\ UNCHANGED <<build, vec, iter, last, log, rt, str, idc>>

NextTable == CallTableGet

SpecTable == InitTable /\ [][NextTable]_vars

\* C2: Table::get returns exactly the supplied default when the slot's raw
\* offset is 0 or the slot lies beyond the table's declared slot count, and
\* otherwise the field decoded at object_location + raw offset.
C2_GetDefaultOrField ==
    tbl.call = "get" =>
        LET id == tbl.slot
            absent == id >= Len(tbl.offsets) \/ tbl.offsets[id + 1] = 0
        IN  IF absent THEN tbl.res = tbl.default
            ELSE /\ tbl.res = FieldSome(tbl.vals[id + 1])
                 /\ tbl.res.val = ReadScalarAt(tbl.table.buf,
                        tbl.table.loc + tbl.offsets[id + 1], FieldWidth)

\* C2's case: a get of a declared but absent slot, next to a present field,
\* with a default supplied: the default comes back.
C2_Witness ==
    /\ tbl.call = "get"
    /\ Len(tbl.offsets) = MaxSlots
    /\ tbl.slot = 1 /\ tbl.offsets[2] = 0 /\ tbl.offsets[1] # 0
    /\ tbl.default = FieldSome(42)
    /\ tbl.res = FieldSome(42)

\* --------------------------------------------------------- root accessors
\* The offset-adjusting wrappers around the root type T (here T = Table).
FwdPath == <<"ForwardsUOffset">>
SizePrefixedPath == <<"SkipSizePrefix", "ForwardsUOffset">>

\* <Table as Follow>::follow
Table_follow(buf, loc) == Table_new(buf, loc)

\* <W1<W2<..<Table>>>>::follow(buf, loc) for the wrappers of path:
\* SkipSizePrefix skips 4 bytes, ForwardsUOffset adds the offset stored at loc.
RECURSIVE Follow_path(_, _, _)
Follow_path(path, buf, loc) ==
    IF path = <<>> THEN Table_follow(buf, loc)
    ELSE IF Head(path) = "SkipSizePrefix"
         THEN Follow_path(Tail(path), buf, loc + SIZE_SIZEPREFIX)
    ELSE LET off == ReadUOffsetAsUsize(buf, loc)
         IN  IF off = OutOfBounds THEN Table_follow(buf, OutOfBounds)
             ELSE Follow_path(Tail(path), buf, loc + off)

\* What the verifier of the root type itself may answer: the external
\* verifier is opaque, its answer an input.
InnerVerdicts == {"Ok", "DepthLimitReached", "TooManyTables", "InconsistentUnion"}

\* <W1<W2<..<T>>>>::run_verifier(v, pos): each wrapper checks the bytes it
\* reads and hands on the position Follow_path hands on; T's own verifier
\* rejects a position outside the buffer and otherwise answers `inner`.
\* `at` is the position T was verified at (or the position that failed).
RECURSIVE run_verifier(_, _, _, _)
run_verifier(path, buf, pos, inner) ==
    IF path = <<>>
    THEN [verdict |-> IF InBounds(buf, pos, SIZE_SOFFSET) THEN inner
                      ELSE "RangeOutOfBounds",
          at |-> pos]
    ELSE IF ~InBounds(buf, pos, SIZE_UOFFSET)
         THEN [verdict |-> "RangeOutOfBounds", at |-> pos]
    ELSE IF Head(path) = "SkipSizePrefix"
         THEN run_verifier(Tail(path), buf, pos + SIZE_SIZEPREFIX, inner)
    ELSE run_verifier(Tail(path), buf, pos + ReadUOffsetAsUsize(buf, pos), inner)

\* The steps of a call, in order: a run of the verifier, a decode.
VerifyEv(path, start, opts, v) ==
    [ev |-> "verify", path |-> path, start |-> start, opts |-> opts,
     at |-> v.at, verdict |-> v.verdict]
DecodeEv(path, start, t) ==
    [ev |-> "decode", path |-> path, start |-> start, opts |-> "none",
     at |-> t.loc, verdict |-> "none"]

\* Result<T::Inner, InvalidFlatbuffer>
OkRes(t) == [kind |-> "Ok", table |-> t, error |-> "none"]
ErrRes(e) == [kind |-> "Err", table |-> Table_new(<<>>, 0), error |-> e]

\* root_unchecked
root_unchecked(data) == Follow_path(FwdPath, data, 0)

\* size_prefixed_root_unchecked
size_prefixed_root_unchecked(data) == Follow_path(SizePrefixedPath, data, 0)

\* root_with_opts as a bug would have it: the verifier's error is dropped
\* and the root decoded all the same.
root_with_opts_ignoresError(opts, data, inner) ==
    LET v == run_verifier(FwdPath, data, 0, inner)
        t == root_unchecked(data)
    IN  [events |-> <<VerifyEv(FwdPath, 0, opts, v), DecodeEv(FwdPath, 0, t)>>,
         res |-> OkRes(t)]

\* root_with_opts; `inner` is what the external verifier answers for T.
root_with_opts(opts, data, inner) ==
    LET v == run_verifier(FwdPath, data, 0, inner)
    IN  IF v.verdict # "Ok"
        THEN [events |-> <<VerifyEv(FwdPath, 0, opts, v)>>,
              res |-> ErrRes(v.verdict)]
        ELSE LET t == root_unchecked(data)
             IN  [events |-> <<VerifyEv(FwdPath, 0, opts, v),
                               DecodeEv(FwdPath, 0, t)>>,
                  res |-> OkRes(t)]

\* root
root(data, inner) == root_with_opts("default", data, inner)

\* size_prefixed_root_with_opts as a bug would have it: the verifier is
\* started on the forward offset alone, the decode skips the size prefix.
size_prefixed_root_with_opts_verifiesUnskipped(opts, data, inner) ==
    LET v == run_verifier(FwdPath, data, 0, inner)
    IN  IF v.verdict # "Ok"
        THEN [events |-> <<VerifyEv(FwdPath, 0, opts, v)>>,
              res |-> ErrRes(v.verdict)]
        ELSE LET t == size_prefixed_root_unchecked(data)
             IN  [events |-> <<VerifyEv(FwdPath, 0, opts, v),
                               DecodeEv(SizePrefixedPath, 0, t)>>,
                  res |-> OkRes(t)]

\* size_prefixed_root_with_opts
size_prefixed_root_with_opts(opts, data, inner) ==
    LET v == run_verifier(SizePrefixedPath, data, 0, inner)
    IN  IF v.verdict # "Ok"
        THEN [events |-> <<VerifyEv(SizePrefixedPath, 0, opts, v)>>,
              res |-> ErrRes(v.verdict)]
        ELSE LET t == size_prefixed_root_unchecked(data)
             IN  [events |-> <<VerifyEv(SizePrefixedPath, 0, opts, v),
                               DecodeEv(SizePrefixedPath, 0, t)>>,
                  res |-> OkRes(t)]

\* size_prefixed_root
size_prefixed_root(data, inner) ==
    size_prefixed_root_with_opts("default", data, inner)

\* The values of the 4-byte words of the fixture buffers: offsets inside and
\* outside the buffer.
WordVals == {0, 4, 8, 12, 300}

\* VerifierOptions: the default, or the caller's own.
Opts == {"default", "custom"}

RECURSIVE SeqsUpTo(_, _)
SeqsUpTo(S, n) ==
    IF n = 0 THEN {<<>>}
    ELSE LET shorter == SeqsUpTo(S, n - 1)
         IN  shorter \cup {Append(q, x) : q \in shorter, x \in S}

\* Any buffer of up to MaxWords words, whole or with a ragged tail.
InitRoot ==
    /\ \E words \in SeqsUpTo(WordVals, MaxWords), tail \in {<<>>, <<7, 7>>} :
         rt = [call |-> "new", words |-> words,
               buf |-> ConcatLE(words, SIZE_UOFFSET) \o tail,
               events |-> <<>>, res |-> ErrRes("none")]
    /\ build = FALSE
    /\ vec = Idle /\ iter = Idle /\ last = Idle /\ log = Idle
    /\ tbl = Idle /\ str = Idle /\ idc = Idle

\* One call of an accessor on the buffer: c is what it did and returned.
RootCalled(name, c) ==
    /\ rt' = [rt EXCEPT !.call = name, !.events = c.events, !.res = c.res]
    /\ UNCHANGED <<build, vec, iter, last, log, tbl, str, idc>>

CallRoot ==
    \E inner \in InnerVerdicts : RootCalled("root", root(rt.buf, inner))

CallRootWithOpts ==
    \E inner \in InnerVerdicts, opts \in Opts :
        RootCalled("root_with_opts", root_with_opts(opts, rt.buf, inner))

CallSizePrefixedRoot ==
    \E inner \in InnerVerdicts :
        RootCalled("size_prefixed_root", size_prefixed_root(rt.buf, inner))

CallSizePrefixedRootWithOpts ==
    \E inner \in InnerVerdicts, opts \in Opts :
        RootCalled("size_prefixed_root_with_opts",
                   size_prefixed_root_with_opts(opts, rt.buf, inner))

\* The unchecked accessors are called on trusted buffers only: the offset
\* they read lies inside the buffer (their safety contract).
CallRootUnchecked ==
    /\ InBounds(rt.buf, 0, SIZE_UOFFSET)
    /\ LET t == root_unchecked(rt.buf)
       IN  RootCalled("root_unchecked",
               [events |-> <<DecodeEv(FwdPath, 0, t)>>, res |-> OkRes(t)])

CallSizePrefixedRootUnchecked ==
    /\ InBounds(rt.buf, SIZE_SIZEPREFIX, SIZE_UOFFSET)
    /\ LET t == size_prefixed_root_unchecked(rt.buf)
       IN  RootCalled("size_prefixed_root_unchecked",
               [events |-> <<DecodeEv(SizePrefixedPath, 0, t)>>, res |-> OkRes(t)])

NextRoot ==
    \/ CallRoot \/ CallRootWithOpts
    \/ CallSizePrefixedRoot \/ CallSizePrefixedRootWithOpts
    \/ CallRootUnchecked \/ CallSizePrefixedRootUnchecked

SpecRoot == InitRoot /\ [][NextRoot]_vars

\* C1: root and root_with_opts run the verifier exactly once, at location 0
\* through the forward-offset wrapper, before any decode; on a verifier error
\* they return that error and decode nothing; on success they decode once and
\* return exactly what root_unchecked returns on the buffer, the object at
\* the offset stored in the buffer's first word.
C1_RootVerifiesThenDecodes ==
    rt.call \in {"root", "root_with_opts"} =>
        /\ Len(rt.events) >= 1
        /\ rt.events[1].ev = "verify"
        /\ rt.events[1].path = FwdPath /\ rt.events[1].start = 0
        /\ rt.call = "root" => rt.events[1].opts = "default"
        /\ \A i \in 2..Len(rt.events) : rt.events[i].ev = "decode"
        /\ IF rt.events[1].verdict = "Ok"
           THEN /\ Len(rt.events) = 2
                /\ rt.res = OkRes(root_unchecked(rt.buf))
                /\ rt.res.table = Table_new(rt.buf, rt.words[1])
                /\ rt.events[2].at = rt.events[1].at
           ELSE /\ Len(rt.events) = 1
                /\ rt.res = ErrRes(rt.events[1].verdict)

\* C1's case: a checked root access the verifier rejected for a reason of
\* its own, on a buffer whose root offset is in range: nothing was decoded.
C1_Witness ==
    /\ rt.call = "root"
    /\ Len(rt.words) = 2 /\ rt.words[1] = 4
    /\ rt.res = ErrRes("DepthLimitReached")
    /\ Len(rt.events) = 1

\* C9: size_prefixed_root and size_prefixed_root_with_opts run the verifier
\* once, on the size-prefix-skip + forward-offset path the decoder uses, and
\* decode only when it accepted; the root location verified is the root
\* location decoded, 4 + the offset stored at bytes 4..8, which is what root
\* finds, moved by 4, on the buffer without its first 4 bytes.
C9_SizePrefixedRootSkipsPrefix ==
    rt.call \in {"size_prefixed_root", "size_prefixed_root_with_opts"} =>
        /\ Len(rt.events) >= 1
        /\ rt.events[1].ev = "verify"
        /\ rt.events[1].path = SizePrefixedPath /\ rt.events[1].start = 0
        /\ \A i \in 2..Len(rt.events) : rt.events[i].ev = "decode"
        /\ IF rt.events[1].verdict = "Ok"
           THEN /\ Len(rt.events) = 2
                /\ rt.events[2].path = SizePrefixedPath
                /\ rt.events[2].at = rt.events[1].at
                /\ rt.events[2].at = SIZE_SIZEPREFIX + rt.words[2]
                /\ rt.res = OkRes(Table_new(rt.buf, SIZE_SIZEPREFIX + rt.words[2]))
                /\ rt.res.table.loc = SIZE_SIZEPREFIX +
                      root_unchecked(SubSeq(rt.buf, SIZE_SIZEPREFIX + 1,
                                            Len(rt.buf))).loc
           ELSE /\ Len(rt.events) = 1
                /\ rt.res = ErrRes(rt.events[1].verdict)

\* C9's case: a size-prefixed buffer whose first word, read as a root
\* offset, would lead elsewhere than the root, accepted and decoded.
C9_Witness ==
    /\ rt.call = "size_prefixed_root"
    /\ Len(rt.words) = 3 /\ rt.words[1] = 8 /\ rt.words[2] = 4
    /\ rt.res.kind = "Ok" /\ rt.res.table.loc = 8
    /\ Len(rt.events) = 2

\* ------------------------------------------------------ Buffer and strings
\* Option<Self> of Buffer::slice
SliceSome(b) == [some |-> TRUE, buf |-> b]
SliceNone == [some |-> FALSE, buf |-> <<>>]

\* <&[u8] as Buffer>::slice(start..end): None if start > end or end is out
\* of bounds.
Buffer_slice(buf, start, end) ==
    IF start > end \/ end > Len(buf) THEN SliceNone
    ELSE SliceSome(SubSeq(buf, start + 1, end))

\* Buffer::shallow_copy
Buffer_shallow_copy(buf) == Buffer_slice(buf, 0, Len(buf)).buf

\* <&[u8] as Buffer>::empty
Buffer_empty == <<>>

\* Whether b is a continuation byte in lo..hi.
Cont(b, lo, hi) == b >= lo /\ b <= hi

\* std::str::from_utf8 accepts exactly the well-formed byte sequences: no
\* stray or missing continuation byte, no overlong form, no surrogate,
\* nothing above U+10FFFF.
RECURSIVE IsUtf8(_)
IsUtf8(b) ==
    IF b = <<>> THEN TRUE
    ELSE LET n == Len(b)
             b1 == b[1]
             Rest(k) == SubSeq(b, k + 1, n)
         IN  IF b1 <= 127 THEN IsUtf8(Rest(1))
             ELSE IF b1 >= 194 /\ b1 <= 223
                  THEN n >= 2 /\ Cont(b[2], 128, 191) /\ IsUtf8(Rest(2))
             ELSE IF b1 >= 224 /\ b1 <= 239
                  THEN /\ n >= 3
                       /\ Cont(b[2], IF b1 = 224 THEN 160 ELSE 128,
                                     IF b1 = 237 THEN 159 ELSE 191)
                       /\ Cont(b[3], 128, 191)
                       /\ IsUtf8(Rest(3))
             ELSE IF b1 >= 240 /\ b1 <= 244
                  THEN /\ n >= 4
                       /\ Cont(b[2], IF b1 = 240 THEN 144 ELSE 128,
                                     IF b1 = 244 THEN 143 ELSE 191)
                       /\ Cont(b[3], 128, 191)
                       /\ Cont(b[4], 128, 191)
                       /\ IsUtf8(Rest(4))
             ELSE FALSE

\* Result<BufferString, Utf8Error>, or the string decode's outcome.
StrOk(b) == [kind |-> "Str", bytes |-> b]
StrErr == [kind |-> "Utf8Error", bytes |-> <<>>]
StrPanic == [kind |-> "Panic", bytes |-> <<>>]

\* <&[u8] as Buffer>::buffer_str
Buffer_buffer_str(buf) == IF IsUtf8(buf) THEN StrOk(buf) ELSE StrErr

\* <&[u8] as Buffer>::empty_str: the canonical empty string ""
Buffer_empty_str == StrOk(<<>>)

\* Buffer::empty_str, the trait's default: Self::empty().buffer_str().unwrap()
Buffer_empty_str_default ==
    LET r == Buffer_buffer_str(Buffer_empty)
    IN  IF r.kind = "Str" THEN r ELSE StrPanic

\* <&str as Follow>::follow(buf, loc).  sliced: whether the sub-range request
\* returned a buffer; utf8: the outcome of buffer_str.
Follow_str(buf, loc, checks) ==
    LET len == ReadUOffsetAsUsize(buf, loc)
        start == UAdd(loc, SIZE_UOFFSET, checks)
        end == UAdd(UAdd(loc, SIZE_UOFFSET, checks), len, checks)
    IN  IF start = Panic \/ end = Panic
        THEN [res |-> StrPanic, sliced |-> FALSE, asked |-> FALSE, utf8 |-> "none"]
        ELSE LET sl == Buffer_slice(buf, start, end)
                 b == IF sl.some THEN sl.buf ELSE Buffer_empty
                 r == Buffer_buffer_str(b)
             IN  [res |-> IF r.kind = "Str" THEN r ELSE Buffer_empty_str,
                  sliced |-> sl.some, asked |-> TRUE, utf8 |-> r.kind]

\* The bytes of the fixture strings: 'A', NUL, the parts of a 2-byte and of
\* a 3-byte character, and bytes no UTF-8 text holds.
StrBytes == {65, 0, 195, 169, 226, 130, 172, 255}

\* The length a fixture declares for a byte run of n bytes: the true one,
\* one that runs past the end of the buffer, and ones so large that
\* location + 4 + length passes the end of the word.
DeclaredLens(n) == {n, n + 1, WordMod - SIZE_UOFFSET, WordMax}

\* A string on the wire, [4-byte length][bytes], after pad bytes of other
\* data; the location of its length field is readable.
InitStr ==
    /\ build \in BOOLEAN
    /\ \E payload \in SeqsUpTo(StrBytes, MaxStr), pad \in {0, 4} :
         \E declared \in DeclaredLens(Len(payload)) :
            str = [call |-> "new", loc |-> pad, payload |-> payload,
                   declared |-> declared,
                   buf |-> [i \in 1..pad |-> 238] \o LEBytes(declared, SIZE_UOFFSET)
                             \o payload,
                   res |-> StrOk(<<>>), sliced |-> FALSE, asked |-> FALSE,
                   utf8 |-> "none"]
    /\ vec = Idle /\ iter = Idle /\ last = Idle /\ log = Idle
    /\ tbl = Idle /\ rt = Idle /\ idc = Idle

\* <&str>::follow(buf, loc) on the fixture.
CallFollowStr ==
    /\ str.call = "new"
    /\ LET f == Follow_str(Buffer_shallow_copy(str.buf), str.loc, build)
       IN  str' = [str EXCEPT !.call = "follow_str", !.res = f.res,
                              !.sliced = f.sliced, !.asked = f.asked,
                              !.utf8 = f.utf8]
    /\ UNCHANGED <<build, vec, iter, last, log, tbl, rt, idc>>

\* B::empty().buffer_str(): an empty storage instance made into a string.
CallEmptyBufferStr ==
    /\ str.call = "new"
    /\ str' = [str EXCEPT !.call = "empty_buffer_str",
                          !.res = Buffer_buffer_str(Buffer_empty)]
    /\ UNCHANGED <<build, vec, iter, last, log, tbl, rt, idc>>

NextStr == CallFollowStr \/ CallEmptyBufferStr

SpecStr == InitStr /\ [][NextStr]_vars

\* C6: decoding a string whose length-prefixed byte run is not valid UTF-8
\* fails with a conversion error; it never returns a replaced, truncated or
\* repaired string, in particular not the empty string.
C6_InvalidUtf8Fails ==
    (/\ str.call = "follow_str"
     /\ str.declared = Len(str.payload)
     /\ ~IsUtf8(str.payload)) => str.res.kind = "Utf8Error"

\* C10: decoding a string whose declared length makes the range
\* location+4 .. location+4+length start after its end or run past the end
\* of the storage does not fault: the sub-range request reports absence and
\* the decode returns the canonical empty string; and an empty storage
\* instance materializes to the canonical empty string.
C10_OutOfRangeIsEmpty ==
    /\ (str.call = "follow_str" /\ str.declared > Len(str.payload)) =>
          /\ str.res.kind # "Panic"
          /\ str.asked /\ ~str.sliced
          /\ str.res = Buffer_empty_str
    /\ str.call = "empty_buffer_str" =>
          (str.res = Buffer_empty_str /\ str.res = Buffer_empty_str_default)

\* -------------------------------------------------- buffer_has_identifier
\* <FileIdentifier as Follow>::follow(buf, loc): the 4 bytes of the
\* identifier region; on a buffer too short to hold them the sub-range is
\* absent and nothing is read.
FileIdentifier_follow(buf, loc) ==
    LET sl == Buffer_slice(buf, loc, loc + FILE_IDENTIFIER_LENGTH)
    IN  IF sl.some THEN sl.buf ELSE Buffer_empty

\* <SkipRootOffset<T>>::follow: T after the 4-byte root offset.
SkipRootOffset_follow(buf, loc) == FileIdentifier_follow(buf, loc + SIZE_UOFFSET)

\* <SkipSizePrefix<SkipRootOffset<T>>>::follow: after the size prefix too.
SkipSizePrefix_SkipRootOffset_follow(buf, loc) ==
    SkipRootOffset_follow(buf, loc + SIZE_SIZEPREFIX)

\* bool, or the panic of the assertion.
BoolRes(b) == [kind |-> "Bool", val |-> b]
AssertPanic == [kind |-> "Panic", val |-> FALSE]

\* buffer_has_identifier as a bug would have it: size_prefixed is not looked
\* at, the identifier is always taken after the root offset.
buffer_has_identifier_ignoresPrefix(data, ident, size_prefixed) ==
    IF Len(ident) # FILE_IDENTIFIER_LENGTH THEN AssertPanic
    ELSE BoolRes(ident = SkipRootOffset_follow(data, 0))

\* buffer_has_identifier(data, ident, size_prefixed); ident is the bytes of
\* the &str.
buffer_has_identifier(data, ident, size_prefixed) ==
    IF Len(ident) # FILE_IDENTIFIER_LENGTH THEN AssertPanic
    ELSE LET got == IF size_prefixed
                    THEN SkipSizePrefix_SkipRootOffset_follow(data, 0)
                    ELSE SkipRootOffset_follow(data, 0)
         IN  BoolRes(ident = got)

\* The identifiers written into the fixture buffers: "MONS", "MONT".
WireIdents == {<<77, 79, 78, 83>>, <<77, 79, 78, 84>>}

\* The identifiers a caller asks for: those, and strings that are not 4
\* bytes long: "", "MON", "MONSX".
AskedIdents ==
    WireIdents \cup {<<>>, <<77, 79, 78>>, <<77, 79, 78, 83, 88>>}

\* A buffer [4 bytes][identifier a][identifier b], cut to any length: a is
\* the identifier region of a plain buffer, b that of a size-prefixed one.
InitIdent ==
    /\ \E a \in WireIdents, b \in WireIdents, n \in 0..MaxIdentBuf :
         idc = [call |-> "new", a |-> a, b |-> b,
                buf |-> SubSeq(LEBytes(12, SIZE_UOFFSET) \o a \o b
                                 \o [i \in 1..MaxIdentBuf |-> 0], 1, n),
                ident |-> <<>>, size_prefixed |-> FALSE, res |-> BoolRes(FALSE)]
    /\ build = FALSE
    /\ vec = Idle /\ iter = Idle /\ last = Idle /\ log = Idle
    /\ tbl = Idle /\ rt = Idle /\ str = Idle

CallBufferHasIdentifier ==
    /\ \E ident \in AskedIdents, size_prefixed \in BOOLEAN :
         idc' = [idc EXCEPT !.call = "buffer_has_identifier",
                            !.ident = ident, !.size_prefixed = size_prefixed,
                            !.res = buffer_has_identifier(idc.buf, ident,
                                                          size_prefixed)]
    /\ UNCHANGED <<build, vec, iter, last, log, tbl, rt, str>>

NextIdent == CallBufferHasIdentifier

SpecIdent == InitIdent /\ [][NextIdent]_vars

\* Whether the buffer holds the whole identifier region and the region's
\* bytes are those of the identifier asked for.
RegionMatches ==
    LET from == IF idc.size_prefixed THEN SIZE_SIZEPREFIX + SIZE_UOFFSET
                ELSE SIZE_UOFFSET
    IN  /\ Len(idc.buf) >= from + FILE_IDENTIFIER_LENGTH
        /\ idc.ident = (IF idc.size_prefixed THEN idc.b ELSE idc.a)

\* C7 as stated: for every buffer, of any length, every identifier and both
\* values of size_prefixed, buffer_has_identifier returns true exactly when
\* the 4 bytes of the identifier region (4..8, or 8..12 when size_prefixed)
\* equal the identifier's bytes, false on any mismatch, and never faults.
C7_HasIdentifierTotal ==
    idc.call = "buffer_has_identifier" =>
        (idc.res.kind = "Bool" /\ idc.res.val = RegionMatches)

\* C7 amended: the same for every identifier of exactly
\* FILE_IDENTIFIER_LENGTH (4) bytes; for an identifier of any other length
\* the call panics on its assertion.
C7_HasIdentifierFourBytes ==
    idc.call = "buffer_has_identifier" =>
        IF Len(idc.ident) = FILE_IDENTIFIER_LENGTH
        THEN idc.res.kind = "Bool" /\ idc.res.val = RegionMatches
        ELSE idc.res.kind = "Panic"

\* C7's case: a size-prefixed buffer whose bytes 4..8 hold another
\* identifier than its bytes 8..12, asked for the one at 8..12.
C7_Witness ==
    /\ idc.call = "buffer_has_identifier"
    /\ idc.size_prefixed /\ idc.a # idc.b /\ idc.ident = idc.b
    /\ Len(idc.buf) = 12
    /\ idc.res = BoolRes(TRUE)

\* ------------------------------------------------------- the whole program
\* The components share no state: a behaviour of the program is a behaviour
\* of one of them.
Init == InitIter \/ InitTable \/ InitRoot \/ InitStr \/ InitIdent

Next ==
    \/ (iter # Idle /\ NextIter)
    \/ (tbl # Idle /\ NextTable)
    \/ (rt # Idle /\ NextRoot)
    \/ (str # Idle /\ NextStr)
    \/ (idc # Idle /\ NextIdent)

Spec == Init /\ [][Next]_vars

====
